---- MODULE Spec2Model ----
(***************************************************************************)
(* Model of the LDAP-authenticating reverse proxy of src/main.py:          *)
(* bearer-token validation, the token_cache, the directory bind and the    *)
(* streaming forwarder.                                                    *)
(*                                                                         *)
(* Strings are sequences of one-character strings, so that len(), split(), *)
(* startswith() and the regular expression are computed character by       *)
(* character.  Time is the value of time.time(), in whole seconds.         *)
(*                                                                         *)
(* verify_token_split is an `async def` without any `await`: from its      *)
(* first line to its return it runs without yielding the event loop, and   *)
(* the LDAP bind inside it is a blocking call.  While a request is inside  *)
(* the bind, the clock and the directory may change, but no other          *)
(* coroutine runs: `running` holds the request that owns the event loop.   *)
(*                                                                         *)
(* Since at most one call of verify_token_split exists at a time, its      *)
(* locals live in one variable, `frame`, which keeps the values of the     *)
(* latest call after it has returned.  The requests themselves keep only   *)
(* their position, their response and their backend resources.             *)
(*                                                                         *)
(* Spec is the whole service with NumRequests concurrent requests,         *)
(* SpecGate the gateway alone (verify_token_split for NumRequests          *)
(* requests), SpecOne one request from arrival to the end of the stream    *)
(* with the full set of Authorization headers.                             *)
(* SpecSweep is the gateway for two requests on a store that is filled to  *)
(* the threshold of the sweep, and SpecForward one request with the full   *)
(* set of inbound requests, from arrival to the end of the stream.         *)
(***************************************************************************)
EXTENDS Integers, Sequences, FiniteSets, TLC

(* ---------------- bounds of the model ---------------- *)
NumRequests == 2
MaxTicks == 2
MaxChunks == 2

(* ---------------- program constants ---------------- *)
CACHE_TTL == 1800
TOKEN_MAX_LEN == 256
SWEEP_THRESHOLD == 1000

Requests == 1..NumRequests

(* ---------------- strings ---------------- *)
Rep(c, n) == [i \in 1..n |-> c]

Lower == {"a","b","c","d","e","f","g","h","i","j","k","l","m",
          "n","o","p","q","r","s","t","u","v","w","x","y","z"}
Upper == {"A","B","C","D","E","F","G","H","I","J","K","L","M",
          "N","O","P","Q","R","S","T","U","V","W","X","Y","Z"}
Digit == {"0","1","2","3","4","5","6","7","8","9"}

\* the character class [a-zA-Z0-9_-]
WordChars == Lower \cup Upper \cup Digit \cup {"_", "-"}

\* the literal "Bearer "
BearerPrefix == <<"B","e","a","r","e","r"," ">>
BasicPrefix == <<"B","a","s","i","c"," ">>

\* str.startswith
StartsWith(s, p) == Len(s) >= Len(p) /\ SubSeq(s, 1, Len(p)) = p

\* index of the first occurrence of character c in s, 0 when there is none
FirstIndex(s, c) ==
    LET S == {i \in 1..Len(s) : s[i] = c}
    IN IF S = {} THEN 0 ELSE CHOOSE i \in S : \A j \in S : i <= j

\* str.split(sep): the list of the pieces between the separators
RECURSIVE Split(_, _)
Split(s, sep) ==
    LET i == FirstIndex(s, sep)
    IN IF i = 0 THEN <<s>>
       ELSE <<SubSeq(s, 1, i - 1)>> \o Split(SubSeq(s, i + 1, Len(s)), sep)

\* str.split(sep, 1): at most one split
SplitOnce(s, sep) ==
    LET i == FirstIndex(s, sep)
    IN IF i = 0 THEN <<s>>
       ELSE <<SubSeq(s, 1, i - 1), SubSeq(s, i + 1, Len(s))>>

\* TOKEN_PATTERN.match(s) for ^[a-zA-Z0-9_-]+:[a-zA-Z0-9_-]+$
\* ($ of Python's re also matches just before a final line feed)
TOKEN_PATTERN(s) ==
    LET core == IF Len(s) > 0 /\ s[Len(s)] = "\n"
                THEN SubSeq(s, 1, Len(s) - 1) ELSE s
    IN \E i \in 2..(Len(core) - 1) :
          /\ core[i] = ":"
          /\ \A j \in 1..Len(core) : j # i => core[j] \in WordChars

(* ---------------- the token cache ---------------- *)
\* raw_token in token_cache
InCache(cache, k) == k \in DOMAIN cache

\* token_cache[k] = v
CachePut(cache, k, v) == [x \in DOMAIN cache \cup {k} |-> IF x = k THEN v ELSE cache[x]]

\* del token_cache[k]
CacheDel(cache, k) == [x \in DOMAIN cache \ {k} |-> cache[x]]

\* line 77 with <= for <: an entry counts as valid at its expiry instant
IsFresh_Inclusive(expiry, current_time) == current_time <= expiry

\* the test of line 77: the entry is still valid at current_time
IsFresh(expiry, current_time) == current_time < expiry

\* lookup of lines 75-80 as the three-way answer of the specification
Lookup(cache, k, current_time) ==
    IF ~InCache(cache, k) THEN "Absent"
    ELSE IF IsFresh(cache[k], current_time) THEN "Fresh" ELSE "Expired"

\* line 36 with <= for <: the sweep also deletes what expires right now
SweepDeletes_Inclusive(expiry, current_time) == expiry <= current_time

\* the filter of line 36: the entries the sweep deletes
SweepDeletes(expiry, current_time) == expiry < current_time

\* clean_expired_cache(), run at time current_time
clean_expired_cache(cache, current_time) ==
    IF Cardinality(DOMAIN cache) > SWEEP_THRESHOLD
    THEN [k \in {x \in DOMAIN cache : ~SweepDeletes(cache[x], current_time)} |-> cache[k]]
    ELSE cache

\* line 85 without the TTL added
InsertExpiry_NoTTL(current_time) == current_time

\* line 85 with the TTL added twice
InsertExpiry_DoubleTTL(current_time) == current_time + 2 * CACHE_TTL

\* the expiry written by line 85
InsertExpiry(current_time) == current_time + CACHE_TTL

(* ---------------- the directory verifier ---------------- *)
\* what one bind attempt can end in: conn.bind() returned True, returned
\* False, or one of the calls of lines 45-49 raised.  conn.bind() is taken
\* to be truthy exactly when the directory accepted the bind.
BindOutcomes == {"accepted", "rejected", "unreachable", "timeout", "malformed"}

DirUsers == {<<"a">>}
Secrets == {<<"a">>, <<"b">>}

\* the directory as a bind-or-reject oracle over its current secrets
Accepts(secrets, username, password) ==
    username \in DOMAIN secrets /\ secrets[username] = password

\* the outcomes the directory and the network allow for one bind attempt
PossibleOutcomes(secrets, username, password) ==
    (IF Accepts(secrets, username, password) THEN {"accepted"} ELSE {"rejected"})
        \cup {"unreachable", "timeout", "malformed"}

\* verify_ldap_dynamic without its except clause: an exception of the bind
\* leaves the function
verify_ldap_dynamic_Propagates(outcome) ==
    IF outcome = "accepted" THEN "True"
    ELSE IF outcome = "rejected" THEN "False" ELSE "raise"

\* verify_ldap_dynamic: the value it hands to its caller ("raise" would be
\* an exception leaving the function)
verify_ldap_dynamic(outcome) ==
    IF outcome = "accepted" THEN "True" ELSE "False"

\* what verify_ldap_dynamic prints: line 53 names the user of a rejected
\* bind, line 56 the exception (taken to carry no part of the credential)
Printed(outcome, username) ==
    CASE outcome = "accepted" -> [text |-> "", arg |-> << >>]
      [] outcome = "rejected" -> [text |-> "LDAP Bind Failed for user", arg |-> username]
      [] OTHER -> [text |-> "LDAP Connection Error", arg |-> << >>]

\* the state verify_ldap_dynamic leaves its Connection in: only the bind
\* that succeeded is followed by conn.unbind(); "created" is a Connection
\* whose socket was never opened
ConnAfter(outcome) ==
    CASE outcome = "accepted" -> "unbound"
      [] outcome = "rejected" -> "open"
      [] outcome = "unreachable" -> "created"
      [] OTHER -> "open"

(* ---------------- the credential validator ---------------- *)
\* raw_token = auth_header.split(" ")[1]
ExtractToken(auth_header) == Split(auth_header, " ")[2]

\* len(raw_token) > 256
TooLong(raw_token) == Len(raw_token) > TOKEN_MAX_LEN

\* lines 63-72: the header test, then the length test, then the pattern
Validate(h) ==
    IF ~h.present \/ h.value = <<>> \/ ~StartsWith(h.value, BearerPrefix)
    THEN [kind |-> "Missing", raw |-> <<>>, stages |-> <<"header">>]
    ELSE LET raw_token == ExtractToken(h.value)
         IN IF TooLong(raw_token)
            THEN [kind |-> "TooLong", raw |-> raw_token,
                  stages |-> <<"header", "length">>]
            ELSE IF ~TOKEN_PATTERN(raw_token)
            THEN [kind |-> "Malformed", raw |-> raw_token,
                  stages |-> <<"header", "length", "pattern">>]
            ELSE [kind |-> "Ok", raw |-> raw_token,
                  stages |-> <<"header", "length", "pattern">>]

\* the status code of each HTTPException
StatusOf(kind) ==
    CASE kind = "Missing" -> 401
      [] kind = "TooLong" -> 400
      [] kind = "Malformed" -> 400
      [] kind = "Invalid" -> 403
      [] kind = "Backend" -> 502
      [] OTHER -> 500

\* the detail of each HTTPException
DetailOf(kind) ==
    CASE kind = "Missing" -> "Missing API Key"
      [] kind = "TooLong" -> "API Key too long"
      [] kind = "Malformed" -> "Invalid API Key Format. Must be 'username:password' (alphanumeric only)"
      [] kind = "Invalid" -> "Invalid Username or Password"
      [] kind = "Backend" -> "Cannot connect to Ollama"
      [] OTHER -> "Internal Server Error"

\* lines 84-87 with the insert moved out of the if: every answer is cached
CacheAfterVerify_Always(cache, raw_token, current_time, sweep_time, result) ==
    clean_expired_cache(CachePut(cache, raw_token, current_time + CACHE_TTL),
                        sweep_time)

\* lines 84-87: what the cache holds after the verifier has answered
CacheAfterVerify(cache, raw_token, current_time, sweep_time, result) ==
    IF result = "True"
    THEN clean_expired_cache(CachePut(cache, raw_token, InsertExpiry(current_time)),
                             sweep_time)
    ELSE cache

\* the endpoint run whatever the dependency did
ForwardAllowed_Any(pc) == pc \in {"Authorized", "Denied"}

\* the endpoint run without waiting for its dependency
ForwardAllowed_Unchecked(pc) == pc \in {"Authorized", "Received"}

\* Depends(verify_token_split): the endpoint runs only when it returned
ForwardAllowed(pc) == pc = "Authorized"

(* ---------------- inputs ---------------- *)
Hdr(v) == [present |-> TRUE, value |-> v]
NoHeader == [present |-> FALSE, value |-> <<>>]

\* a secret that brings the token a:<secret> to 256 characters
LongSecret == Rep("a", TOKEN_MAX_LEN - 2)

\* the Authorization headers of the requests that share the gateway
InputHeaders ==
    { Hdr(BearerPrefix \o <<"a", ":", "a">>),
      Hdr(BearerPrefix \o <<"a", ":", "b">>),
      Hdr(BearerPrefix \o <<"a", "a">>) }

\* the Authorization headers tried on a single request
AllHeaders ==
    InputHeaders \cup
    { NoHeader,
      Hdr(<< >>),
      Hdr(BasicPrefix \o <<"a", ":", "a">>),
      Hdr(BearerPrefix \o <<"a", ":", "a", ":", "a">>),
      Hdr(BearerPrefix \o <<":", "a">>),
      Hdr(BearerPrefix \o <<"a", ":", "a", " ", "!">>),
      Hdr(BearerPrefix \o <<" ", "a", ":", "a">>),
      Hdr(BearerPrefix \o <<"a", ":">> \o LongSecret),
      Hdr(BearerPrefix \o <<"a", ":", "a">> \o LongSecret),
      Hdr(BearerPrefix \o <<"!", "!", "!">> \o LongSecret),
      Hdr(BearerPrefix \o <<"a", ":", "a", " ">> \o LongSecret) }

TickSteps == {1, CACHE_TTL - 1}

\* request.headers as dict(request.headers) sees it: the names in lower
\* case, one value for each name
HeaderMap(auth, others) ==
    IF auth.present THEN others @@ ("authorization" :> auth.value) ELSE others

\* an inbound request without its Authorization header: method, the path
\* after the leading "/", query string, body and the other headers
NoInbound == [method |-> "", path |-> "", query |-> "", body |-> "", headers |-> << >>]

\* no request is in flight to the backend
NoOutbound == [method |-> "", url |-> << >>, content |-> "", headers |-> << >>]

\* the request that the callers of the gateway send when only their
\* credentials matter
PlainRequest ==
    [method |-> "GET", path |-> "api/tags", query |-> "", body |-> "",
     headers |-> ("host" :> <<"g">>)]

\* the header sets tried on the forwarder
OtherHeaders ==
    { << >>,
      ("host" :> <<"g">>),
      ("host" :> <<"g">>) @@ ("accept" :> <<"j">>),
      ("host" :> <<"g">>) @@ ("content-length" :> <<"2">>) @@ ("accept" :> <<"j">>),
      ("content-length" :> <<"2">>) @@ ("x-tag" :> <<"t">>) }

\* the inbound requests tried on the forwarder
InboundRequests ==
    [method : {"GET", "POST"}, path : {"api/tags"}, query : {"", "name=x"},
     body : {"", "{}"}, headers : OtherHeaders]

\* the numbers of the chunks of a body, in the order the backend produces them
Chunks(n) == [i \in 1..n |-> i]

(* ---------------- state ---------------- *)
VARIABLES
    now,          \* time.time()
    ticks,        \* how often the clock has advanced
    secretOf,     \* the directory: the secret of each user
    token_cache,  \* token_cache: raw token -> expiry
    req,          \* the requests: position, response, backend resources
    running,      \* the request inside the blocking bind, 0 when none
    frame,        \* the locals of the current or latest verify_token_split call
    okAt,         \* raw token -> its latest successful verification: the
                  \* current_time of the call, the time of the answer and
                  \* the request that asked
    rejected      \* raw tokens for which verify_ldap_dynamic returned False

vars == <<now, ticks, secretOf, token_cache, req, running, frame, okAt, rejected>>

NewRequest ==
    [pc |-> "Unauthenticated", hdr |-> NoHeader, inbound |-> NoInbound,
     status |-> 0, detail |-> "", client |-> "none", resp |-> "none",
     outbound |-> NoOutbound, rstatus |-> 0, produced |-> 0,
     buffer |-> << >>, delivered |-> << >>]

NoFrame ==
    [r |-> 0, hdr |-> NoHeader, raw |-> << >>, kind |-> "none", t0 |-> -1,
     seen |-> -1, lookup |-> "none", calls |-> 0, outcome |-> "none",
     vresult |-> "none", conn |-> "none", ret |-> "none", trace |-> << >>,
     printed |-> [text |-> "", arg |-> << >>]]

Init ==
    /\ now = 0
    /\ ticks = 0
    /\ secretOf = [u \in DirUsers |-> <<"a">>]
    /\ token_cache = << >>
    /\ req = [r \in Requests |-> NewRequest]
    /\ running = 0
    /\ frame = NoFrame
    /\ okAt = << >>
    /\ rejected = {}

\* the bind awaited instead of called: the event loop serves other
\* coroutines while a request is inside it
EventLoopFree_Awaited(owner) == TRUE

\* the event loop can run a coroutine: no request is inside the blocking
\* call of line 84 (verify_token_split has no await, lines 59-89)
EventLoopFree(owner) == owner = 0

\* the request is waiting for verify_token_split or inside it: the only
\* times at which the clock and the directory are observed
BeforeAuth(pc) == pc \in {"Received", "Verifying"}

(* ---------------- environment ---------------- *)
\* the clock advances (it is read by verify_token_split only)
Tick(d) ==
    /\ ticks < MaxTicks
    /\ \E r \in Requests : BeforeAuth(req[r].pc)
    /\ now' = now + d
    /\ ticks' = ticks + 1
    /\ UNCHANGED <<secretOf, token_cache, req, running, frame, okAt, rejected>>

\* a user's secret is changed in the directory
PasswordChange(u, p) ==
    /\ \E r \in Requests : BeforeAuth(req[r].pc)
    /\ secretOf[u] # p
    /\ secretOf' = [secretOf EXCEPT ![u] = p]
    /\ UNCHANGED <<now, ticks, token_cache, req, running, frame, okAt, rejected>>

\* a request with Authorization header h and the rest q reaches the server
\* and waits for the event loop
Arrive(r, h, q) ==
    /\ req[r].pc = "Unauthenticated"
    /\ r > 1 => req[r - 1].pc # "Unauthenticated"
    /\ req' = [req EXCEPT ![r].pc = "Received", ![r].hdr = h, ![r].inbound = q]
    /\ UNCHANGED <<now, ticks, secretOf, token_cache, running, frame, okAt, rejected>>

(* ---------------- verify_token_split ---------------- *)
\* lines 63-82 and the call of line 84: validation, cache lookup with
\* delete-on-expiry, and the start of the bind
AuthBegin(r) ==
    /\ EventLoopFree(running)
    /\ req[r].pc = "Received"
    /\ LET h == req[r].hdr
           v == Validate(h)
           current_time == now
           res == Lookup(token_cache, v.raw, current_time)
           base == [NoFrame EXCEPT !.r = r, !.hdr = h, !.raw = v.raw, !.kind = v.kind]
       IN IF v.kind # "Ok"
          THEN /\ frame' = [base EXCEPT !.ret = "raised", !.trace = v.stages]
               /\ req' = [req EXCEPT ![r].pc = "Denied", ![r].hdr = NoHeader,
                                     ![r].status = StatusOf(v.kind),
                                     ![r].detail = DetailOf(v.kind)]
               /\ UNCHANGED <<token_cache, running>>
          ELSE IF res = "Fresh"
          THEN /\ frame' = [base EXCEPT !.ret = "True", !.t0 = current_time,
                                        !.seen = token_cache[v.raw], !.lookup = res,
                                        !.trace = v.stages \o <<"lookup">>]
               /\ req' = [req EXCEPT ![r].pc = "Authorized"]
               /\ UNCHANGED <<token_cache, running>>
          ELSE /\ frame' = [base EXCEPT !.ret = "running", !.t0 = current_time,
                                        !.seen = IF res = "Expired"
                                                 THEN token_cache[v.raw] ELSE -1,
                                        !.lookup = res, !.calls = 1,
                                        !.conn = "created",
                                        !.trace = v.stages \o <<"lookup", "bind">>]
               /\ req' = [req EXCEPT ![r].pc = "Verifying"]
               /\ token_cache' = IF res = "Expired" THEN CacheDel(token_cache, v.raw)
                                 ELSE token_cache
               /\ running' = r
    /\ UNCHANGED <<now, ticks, secretOf, okAt, rejected>>

\* the return of verify_ldap_dynamic and lines 84-89
AuthFinish(r, outcome) ==
    /\ running = r
    /\ req[r].pc = "Verifying"
    /\ LET cred == SplitOnce(frame.raw, ":")
           result == verify_ldap_dynamic(outcome)
           base == [frame EXCEPT !.outcome = outcome, !.vresult = result,
                                 !.conn = ConnAfter(outcome),
                                 !.printed = Printed(outcome, cred[1])]
       IN /\ outcome \in PossibleOutcomes(secretOf, cred[1], cred[2])
          /\ token_cache' = CacheAfterVerify(token_cache, frame.raw, frame.t0, now, result)
          /\ okAt' = IF result = "True"
                     THEN CachePut(okAt, frame.raw,
                                   [asked |-> frame.t0, answered |-> now, by |-> r])
                     ELSE okAt
          /\ rejected' = IF result = "False" THEN rejected \cup {frame.raw}
                         ELSE rejected
          /\ IF result = "True"
             THEN /\ frame' = [base EXCEPT !.ret = "True",
                                           !.trace = @ \o <<"insert", "sweep">>]
                  /\ req' = [req EXCEPT ![r].pc = "Authorized"]
             ELSE /\ frame' = [base EXCEPT !.ret = "raised"]
                  /\ req' = [req EXCEPT ![r].pc = "Denied", ![r].hdr = NoHeader,
                        ![r].status = StatusOf(IF result = "False" THEN "Invalid"
                                               ELSE "Unhandled"),
                        ![r].detail = DetailOf(IF result = "False" THEN "Invalid"
                                               ELSE "Unhandled")]
    /\ running' = 0
    /\ UNCHANGED <<now, ticks, secretOf>>

(* ---------------- proxy_ollama ---------------- *)
\* lines 97-99: dict(request.headers) without host and content-length
forward_headers(headers) ==
    [n \in DOMAIN headers \ {"host", "content-length"} |-> headers[n]]

\* lines 94-101: client.build_request(request.method, f"/{path}",
\* content=body, headers=forward_headers); request.url.query is not read
build_request(auth, q) ==
    [method |-> q.method, url |-> <<"/", q.path>>, content |-> q.body,
     headers |-> forward_headers(HeaderMap(auth, q.headers))]

\* the generator of lines 108-111 reads on after every chunk, keeping what
\* it has read
CanRead_Buffering(buffer) == TRUE

\* the generator of lines 108-111 is suspended in its yield until the
\* chunk it holds has been taken: only then it reads the next one
CanRead(buffer) == buffer = << >>

SendOutcomes == {"response", "connect_error", "send_error"}
StreamEnds == {"eof", "backend_error", "disconnect"}

\* the status codes the backend answers with
BackendStatuses == {200, 404}

\* lines 93-104 up to the await of client.send: the client is created and
\* the outbound request is built and handed to it
ForwardBegin(r) ==
    /\ EventLoopFree(running)
    /\ ForwardAllowed(req[r].pc)
    /\ req' = [req EXCEPT ![r].pc = "Sending", ![r].client = "open",
                          ![r].outbound = build_request(req[r].hdr, req[r].inbound)]
    /\ UNCHANGED <<now, ticks, secretOf, token_cache, running, frame, okAt, rejected>>

\* what lines 103-106 leave of the client: no exit of the try closes it
ClientAfterSend(outcome) == "open"

\* line 118: the status the caller's response starts with
ResponseStatus(backend_status) == backend_status

\* the return of client.send, lines 103-106 and 116-120: the request has
\* left the gateway
SendReturn(r, outcome, backend_status) ==
    /\ EventLoopFree(running)
    /\ req[r].pc = "Sending"
    /\ req' = [req EXCEPT ![r] =
          LET gone == [@ EXCEPT !.hdr = NoHeader, !.inbound = NoInbound,
                                !.outbound = NoOutbound,
                                !.client = ClientAfterSend(outcome)]
          IN CASE outcome = "response" ->
                 [gone EXCEPT !.pc = "Streaming", !.resp = "open",
                              !.rstatus = backend_status,
                              !.status = ResponseStatus(backend_status)]
            [] outcome = "connect_error" ->
                 [gone EXCEPT !.pc = "Done", !.status = StatusOf("Backend"),
                              !.detail = DetailOf("Backend")]
            [] OTHER ->
                 [gone EXCEPT !.pc = "Done", !.status = StatusOf("Unhandled"),
                              !.detail = DetailOf("Unhandled")]]
    /\ UNCHANGED <<now, ticks, secretOf, token_cache, running, frame, okAt, rejected>>

\* line 110: the loop takes the next chunk from the backend's response
StreamRead(r) ==
    /\ EventLoopFree(running)
    /\ req[r].pc = "Streaming"
    /\ req[r].produced < MaxChunks
    /\ CanRead(req[r].buffer)
    /\ req' = [req EXCEPT ![r].produced = @ + 1,
                          ![r].buffer = Append(@, Chunks(req[r].produced + 1)[req[r].produced + 1])]
    /\ UNCHANGED <<now, ticks, secretOf, token_cache, running, frame, okAt, rejected>>

\* line 111: the chunk is yielded and sent to the caller
StreamYield(r) ==
    /\ EventLoopFree(running)
    /\ req[r].pc = "Streaming"
    /\ req[r].buffer # << >>
    /\ req' = [req EXCEPT ![r].delivered = Append(@, Head(req[r].buffer)),
                          ![r].buffer = Tail(@)]
    /\ UNCHANGED <<now, ticks, secretOf, token_cache, running, frame, okAt, rejected>>

\* the loop ends and the finally of lines 112-114 closes response and client
StreamEnd(r, how) ==
    /\ EventLoopFree(running)
    /\ req[r].pc = "Streaming"
    /\ req' = [req EXCEPT ![r].pc = "Done", ![r].resp = "closed",
                          ![r].client = "closed", ![r].rstatus = 0,
                          ![r].produced = 0, ![r].buffer = << >>,
                          ![r].delivered = << >>]
    /\ UNCHANGED <<now, ticks, secretOf, token_cache, running, frame, okAt, rejected>>

(* ---------------- specifications ---------------- *)
\* the requests of Requests, concurrently, with the headers of InputHeaders
Next ==
    \/ \E d \in TickSteps : Tick(d)
    \/ \E u \in DirUsers, p \in Secrets : PasswordChange(u, p)
    \/ \E r \in Requests, h \in InputHeaders : Arrive(r, h, PlainRequest)
    \/ \E r \in Requests : AuthBegin(r)
    \/ \E r \in Requests, o \in {"accepted", "rejected", "timeout"} : AuthFinish(r, o)
    \/ \E r \in Requests : ForwardBegin(r)
    \/ \E r \in Requests, o \in SendOutcomes, st \in BackendStatuses : SendReturn(r, o, st)
    \/ \E r \in Requests : StreamRead(r)
    \/ \E r \in Requests : StreamYield(r)
    \/ \E r \in Requests, how \in StreamEnds : StreamEnd(r, how)

Spec == Init /\ [][Next]_vars

\* the gateway alone: the requests of Requests up to the decision of
\* verify_token_split, without the forwarder
NextGate ==
    \/ \E d \in TickSteps : Tick(d)
    \/ \E u \in DirUsers, p \in Secrets : PasswordChange(u, p)
    \/ \E r \in Requests, h \in InputHeaders : Arrive(r, h, PlainRequest)
    \/ \E r \in Requests : AuthBegin(r)
    \/ \E r \in Requests, o \in BindOutcomes : AuthFinish(r, o)

SpecGate == Init /\ [][NextGate]_vars

\* one request alone, with every header of AllHeaders
NextOne ==
    \/ \E d \in TickSteps : Tick(d)
    \/ \E u \in DirUsers, p \in Secrets : PasswordChange(u, p)
    \/ \E h \in AllHeaders : Arrive(1, h, PlainRequest)
    \/ AuthBegin(1)
    \/ \E o \in BindOutcomes : AuthFinish(1, o)
    \/ ForwardBegin(1)
    \/ \E o \in SendOutcomes, st \in BackendStatuses : SendReturn(1, o, st)
    \/ StreamRead(1)
    \/ StreamYield(1)
    \/ \E how \in StreamEnds : StreamEnd(1, how)

\* the single request meets either an empty cache or the entry that an
\* earlier request, verified at time 0, has left
InitOne ==
    /\ now = 0
    /\ ticks = 0
    /\ secretOf = [u \in DirUsers |-> <<"a">>]
    /\ \E warm \in BOOLEAN :
          /\ token_cache = IF warm
                THEN CachePut(<< >>, <<"a", ":", "a">>, InsertExpiry(0)) ELSE << >>
          /\ okAt = IF warm
                THEN CachePut(<< >>, <<"a", ":", "a">>,
                              [asked |-> 0, answered |-> 0, by |-> 0])
                ELSE << >>
    /\ req = [r \in Requests |-> NewRequest]
    /\ running = 0
    /\ frame = NoFrame
    /\ rejected = {}

SpecOne == InitOne /\ [][NextOne]_vars

\* the forwarder: one request with a credential that the directory accepts
\* or rejects, with every inbound request of InboundRequests
NextForward ==
    \/ \E h \in InputHeaders, q \in InboundRequests : Arrive(1, h, q)
    \/ AuthBegin(1)
    \/ \E o \in {"accepted", "rejected", "unreachable"} : AuthFinish(1, o)
    \/ ForwardBegin(1)
    \/ \E o \in SendOutcomes, st \in BackendStatuses : SendReturn(1, o, st)
    \/ StreamRead(1)
    \/ StreamYield(1)
    \/ \E how \in StreamEnds : StreamEnd(1, how)

SpecForward == InitOne /\ [][NextForward]_vars

\* the decimal numeral of n
RECURSIVE Decimal(_)
Decimal(n) ==
    LET d == <<"0","1","2","3","4","5","6","7","8","9">>[(n % 10) + 1]
    IN IF n < 10 THEN <<d>> ELSE Decimal(n \div 10) \o <<d>>

\* the raw token of the i-th of the users that filled the cache earlier
FillerToken(i) == <<"u">> \o Decimal(i) \o <<":", "x">>

\* the current_time of the request that verified the i-th of them
FillerAsked(i) == i % 3

\* the number that a decimal numeral stands for
RECURSIVE DecimalValue(_)
DecimalValue(s) ==
    LET v == CHOOSE d \in 0..9 : Decimal(d) = <<s[Len(s)]>>
    IN IF Len(s) = 1 THEN v ELSE 10 * DecimalValue(SubSeq(s, 1, Len(s) - 1)) + v

\* the i of FillerToken(i)
FillerIndex(raw_token) == DecimalValue(SubSeq(raw_token, 2, Len(raw_token) - 2))

\* the cache that the first n of these users have left
FilledCache(n) ==
    [k \in {FillerToken(i) : i \in 1..n} |-> InsertExpiry(FillerAsked(FillerIndex(k)))]

FilledOkAt(n) ==
    [k \in {FillerToken(i) : i \in 1..n} |->
        [asked |-> FillerAsked(FillerIndex(k)),
         answered |-> FillerAsked(FillerIndex(k)), by |-> 0]]

\* the two requests that meet the filled cache
SweepRequests == {1, 2}

\* the requests meet a cache at, or one entry below, the threshold of the
\* sweep, at a time when some of its entries have lapsed, some expire at
\* this very second and some are still valid
InitSweep ==
    /\ now = CACHE_TTL + 1
    /\ ticks = 0
    /\ secretOf = [u \in DirUsers |-> <<"a">>]
    /\ \E n \in {SWEEP_THRESHOLD - 1, SWEEP_THRESHOLD} :
          /\ token_cache = FilledCache(n)
          /\ okAt = FilledOkAt(n)
    /\ req = [r \in Requests |-> NewRequest]
    /\ running = 0
    /\ frame = NoFrame
    /\ rejected = {}

\* (the directory keeps its secrets here)
NextSweep ==
    \/ \E d \in TickSteps : Tick(d)
    \/ \E r \in SweepRequests, h \in InputHeaders : Arrive(r, h, PlainRequest)
    \/ \E r \in SweepRequests : AuthBegin(r)
    \/ \E r \in SweepRequests, o \in BindOutcomes : AuthFinish(r, o)

SpecSweep == InitSweep /\ [][NextSweep]_vars

(* ---------------- the claims ---------------- *)
\* the bearer token of a header: the raw string after the "Bearer " prefix
BearerToken(h) == SubSeq(h.value, Len(BearerPrefix) + 1, Len(h.value))

HasBearer(h) == h.present /\ StartsWith(h.value, BearerPrefix)

\* identifier:secret, both parts non-empty runs of [A-Za-z0-9_-]
WellFormed(t) ==
    \E i \in 1..Len(t) :
        /\ t[i] = ":"
        /\ 1 < i /\ i < Len(t)
        /\ \A j \in 1..Len(t) : j # i => t[j] \in WordChars

\* the latest call of verify_token_split has come to its end
Returned == frame.r # 0 /\ frame.ret # "running"

Is4xx(status) == status \in 400..499

\* C1: a request whose bearer token is not identifier:secret with both parts
\* non-empty runs of [A-Za-z0-9_-] ends Denied with a 400-class error, and
\* the directory verifier is never invoked for it.
C1_MalformedDeniedBeforeDirectory ==
    (frame.r # 0 /\ HasBearer(frame.hdr) /\ ~WellFormed(BearerToken(frame.hdr)))
        => /\ frame.calls = 0
           /\ req[frame.r].pc = "Denied"
           /\ Is4xx(req[frame.r].status)

\* C2: a request that carries a raw credential which an earlier request
\* verified successfully, and that arrives less than CACHE_TTL after that
\* request, makes no directory call and is Authorized from the cache: the
\* verifier runs once for the whole sequence.
C2_OneVerificationPerWindow ==
    (/\ frame.r # 0 /\ frame.kind = "Ok"
     /\ frame.raw \in DOMAIN okAt
     /\ okAt[frame.raw].by # frame.r
     /\ frame.t0 < okAt[frame.raw].asked + CACHE_TTL)
        => /\ frame.calls = 0
           /\ frame.lookup = "Fresh"
           /\ req[frame.r].pc = "Authorized"

\* a second request served from the cache, later than the first and inside
\* its window
C2_Witness ==
    /\ frame.r # 0 /\ frame.kind = "Ok"
    /\ frame.raw \in DOMAIN okAt
    /\ okAt[frame.raw].by # frame.r
    /\ frame.t0 > okAt[frame.raw].asked
    /\ frame.t0 < okAt[frame.raw].asked + CACHE_TTL
    /\ frame.calls = 0
    /\ req[frame.r].pc = "Authorized"

\* C3: no negative caching. A verification that returned false ends its
\* request Denied with 403 and leaves no entry for that raw credential; the
\* cache only holds credentials put there after a successful verification
\* (with the expiry of that insert); and a credential the directory accepts
\* is Authorized and cached whatever was rejected before.
C3_NoNegativeCaching ==
    /\ \A k \in DOMAIN token_cache :
          k \in DOMAIN okAt /\ token_cache[k] = okAt[k].asked + CACHE_TTL
    /\ (Returned /\ frame.vresult = "False")
          => /\ req[frame.r].pc = "Denied"
             /\ req[frame.r].status = 403
             /\ frame.raw \notin DOMAIN token_cache
    /\ (Returned /\ frame.outcome = "accepted")
          => /\ req[frame.r].pc = "Authorized"
             /\ frame.raw \in DOMAIN token_cache

\* a credential that was rejected before is accepted and cached now
C3_Witness ==
    /\ Returned /\ frame.outcome = "accepted"
    /\ frame.raw \in rejected
    /\ req[frame.r].pc = "Authorized"
    /\ frame.raw \in DOMAIN token_cache

\* C4: the lookup is Fresh exactly when an entry exists whose expiry is
\* strictly greater than the current time; an Expired entry is deleted at
\* the read and the request then goes the way of an Absent one: the
\* verifier is invoked, and only its acceptance makes the request Authorized.
C4_FreshIsStrict ==
    (frame.r # 0 /\ frame.kind = "Ok")
        => /\ (frame.lookup = "Fresh") <=> (frame.seen # -1 /\ frame.seen > frame.t0)
           /\ (frame.lookup = "Expired") <=> (frame.seen # -1 /\ frame.seen <= frame.t0)
           /\ (frame.lookup = "Absent") <=> (frame.seen = -1)
           /\ frame.lookup \in {"Expired", "Absent"}
                => /\ frame.calls = 1
                   /\ frame.ret = "running" => frame.raw \notin DOMAIN token_cache
                   /\ req[frame.r].pc = "Authorized" => frame.outcome = "accepted"
           /\ frame.lookup = "Fresh" => frame.calls = 0

\* an entry read at the very instant of its expiry: Expired, deleted, and
\* the bind is in progress
C4_Witness ==
    /\ frame.r # 0 /\ frame.kind = "Ok"
    /\ frame.lookup = "Expired"
    /\ frame.seen = frame.t0
    /\ frame.ret = "running"
    /\ frame.raw \notin DOMAIN token_cache

\* C5: the forwarder runs for a request only after verify_token_split has
\* returned for it, that is after a Fresh hit or an accepted bind; a request
\* denied by the validation or by the directory opens nothing towards the
\* backend.
C5_ForwardOnlyWhenAuthorized ==
    \A r \in Requests :
        /\ (req[r].pc \in {"Sending", "Streaming", "Done"} \/ req[r].client # "none")
              => /\ frame.r = r /\ frame.ret = "True" /\ frame.kind = "Ok"
                 /\ frame.lookup = "Fresh" \/ frame.outcome = "accepted"
        /\ req[r].pc = "Denied" => req[r].client = "none" /\ req[r].resp = "none"

\* the backend is being read for a request that was let in by the cache
C5_Witness ==
    /\ req[1].pc = "Streaming" /\ req[1].client = "open"
    /\ frame.r = 1 /\ frame.lookup = "Fresh"

\* C6: each denial has its error class. No Bearer header, a token of more
\* than 256 characters and a malformed token each give a 400-class answer
\* with a reason of their own; a credential the directory rejects gives 403;
\* a backend that cannot be connected gives 502.
C6_ErrorClasses ==
    /\ Returned =>
          LET h == frame.hdr
              st == req[frame.r].status
              why == req[frame.r].detail
          IN /\ ~HasBearer(h)
                   => Is4xx(st) /\ why = DetailOf("Missing")
             /\ (HasBearer(h) /\ Len(BearerToken(h)) > TOKEN_MAX_LEN)
                   => Is4xx(st) /\ why = DetailOf("TooLong")
             /\ (HasBearer(h) /\ Len(BearerToken(h)) <= TOKEN_MAX_LEN
                              /\ ~WellFormed(BearerToken(h)))
                   => Is4xx(st) /\ why = DetailOf("Malformed")
             /\ frame.outcome = "rejected" => st = 403
    /\ Cardinality({DetailOf("Missing"), DetailOf("TooLong"), DetailOf("Malformed")}) = 3
    /\ \A r \in Requests :
          (req[r].pc = "Done" /\ req[r].resp = "none" /\ req[r].detail = DetailOf("Backend"))
              => req[r].status = 502

\* C7: the length test comes before the pattern. A token of more than 256
\* characters is denied as too long and the pattern is never tried on it; a
\* token of exactly 256 characters is not denied for its length.
C7_LengthBeforePattern ==
    (Returned /\ HasBearer(frame.hdr))
        => LET t == BearerToken(frame.hdr)
           IN /\ Len(t) > TOKEN_MAX_LEN
                   => /\ req[frame.r].pc = "Denied"
                      /\ req[frame.r].detail = DetailOf("TooLong")
                      /\ \A i \in 1..Len(frame.trace) : frame.trace[i] # "pattern"
              /\ Len(t) = TOKEN_MAX_LEN
                   => req[frame.r].detail # DetailOf("TooLong")

\* C8: the verifier never raises. Whatever the bind attempt ends in, it
\* hands back a boolean, true only for an accepted bind, and every other
\* outcome makes the request Denied with 403.
C8_VerifierNeverRaises ==
    (frame.r # 0 /\ frame.outcome # "none")
        => /\ frame.vresult \in {"True", "False"}
           /\ frame.vresult = "True" => frame.outcome = "accepted"
           /\ frame.outcome # "accepted"
                => /\ frame.vresult = "False"
                   /\ req[frame.r].pc = "Denied"
                   /\ req[frame.r].status = 403

\* a bind that timed out was answered with False and 403
C8_Witness ==
    /\ frame.r # 0 /\ frame.outcome = "timeout"
    /\ frame.vresult = "False"
    /\ req[frame.r].pc = "Denied" /\ req[frame.r].status = 403

\* C9: when the verifier has returned, on whichever path, the directory
\* connection it opened has been unbound.
C9_ConnectionReleased ==
    (frame.r # 0 /\ frame.outcome # "none") => frame.conn # "open"

\* C10: a request that has ended, in whichever way, has left no backend
\* client and no backend response open.
C10_BackendReleased ==
    \A r \in Requests :
        req[r].pc \in {"Done", "Denied"}
            => req[r].client # "open" /\ req[r].resp # "open"

\* the username and the password that line 82 takes from a raw token
UserOf(raw_token) == SplitOnce(raw_token, ":")[1]
SecretOf(raw_token) == SplitOnce(raw_token, ":")[2]

\* request r becomes Authorized in this step
BecomesAuthorized(r) == req[r].pc # "Authorized" /\ req'[r].pc = "Authorized"

\* C11: revocation by password change. A request becomes Authorized only
\* with a raw credential the directory accepts at that moment: once the
\* secret was changed, the old credential string authorizes nothing, at
\* once; and a request Authorized by a Fresh entry was Authorized by the
\* entry of its own raw credential string, never by the entry of another
\* string with the same identifier.
C11_RevokedByPasswordChange ==
    [][\A r \in Requests :
          BecomesAuthorized(r)
              => /\ Accepts(secretOf, UserOf(frame'.raw), SecretOf(frame'.raw))
                 /\ frame'.lookup = "Fresh"
                      => /\ frame'.raw \in DOMAIN token_cache
                         /\ frame'.seen = token_cache[frame'.raw]]_vars

\* C12: every cache entry whose expiry is greater than the current time
\* belongs to a raw credential for which verify_ldap_dynamic returned True
\* at some instant that is not later than now and at most CACHE_TTL before
\* now (the clock may advance while the bind is in progress: the answer
\* comes at or after the current_time the expiry is computed from).
C12_FreshEntryWasVerified ==
    \A k \in DOMAIN token_cache :
        token_cache[k] > now
            => /\ k \in DOMAIN okAt
               /\ okAt[k].answered <= now
               /\ now - okAt[k].answered <= CACHE_TTL

\* an unexpired entry whose bind took time to answer, seen some time after
\* the answer
C12_Witness ==
    \E k \in DOMAIN token_cache :
        /\ token_cache[k] > now
        /\ k \in DOMAIN okAt
        /\ okAt[k].asked < okAt[k].answered
        /\ okAt[k].answered < now

\* the keys that this step takes out of the cache
Removed == DOMAIN token_cache \ DOMAIN token_cache'

\* this step is the return of a bind that was answered True: lines 85-87
InsertStep == frame.ret = "running" /\ frame'.ret = "True"

\* the size of the store after the insert of this step
SizeAfterInsert == Cardinality(DOMAIN token_cache \cup {frame'.raw})

\* C13: a sweep runs only after an insert and only when the store then
\* holds more than 1000 entries (no other step removes the entry of another
\* raw token); and when it runs, right after it no entry is left that has
\* lapsed as of the time of the sweep, lapsed meaning not Fresh under the
\* lookup: every entry left has an expiry strictly greater than that time.
C13_SweepRemovesEveryLapsed ==
    [][/\ (Removed \ {frame'.raw}) # {}
             => InsertStep /\ SizeAfterInsert > SWEEP_THRESHOLD
       /\ (InsertStep /\ SizeAfterInsert > SWEEP_THRESHOLD)
             => \A k \in DOMAIN token_cache' : token_cache'[k] > now]_vars

\* request r waits with a token that needs no directory call: one that the
\* validation denies or one with a Fresh entry
NeedsNoBind(r) ==
    LET v == Validate(req[r].hdr)
    IN v.kind # "Ok" \/ Lookup(token_cache, v.raw, now) = "Fresh"

\* C14: while one request is suspended in its directory bind, another
\* request that is waiting with a syntactically invalid token or with a
\* Fresh cache entry can be decided (reach Denied or Authorized) before the
\* pending bind returns: its run of verify_token_split is possible now.
C14_OthersProgressDuringBind ==
    \A r \in Requests :
        (running # 0 /\ r # running /\ req[r].pc = "Received" /\ NeedsNoBind(r))
            => ENABLED AuthBegin(r)

\* the requests inside verify_token_split, between the lookup and the
\* answer of the bind
InsideVerify == {r \in Requests : req[r].pc = "Verifying"}

\* C15: the cache operations of concurrent requests are atomic with respect
\* to each other. At most one request is inside verify_token_split at any
\* time, and it is the one the current frame belongs to; between its lookup
\* (with the delete of an expired entry) and the answer of its bind no other
\* request reads or writes the store; and its insert is not lost: right
\* after it the store holds its raw token with the expiry it wrote, unless
\* its own sweep has taken that entry out as lapsed.
C15_CacheOperationsAtomic ==
    [][/\ Cardinality(InsideVerify) <= 1
       /\ InsideVerify # {} => InsideVerify = {running} /\ frame.r = running
       /\ (running # 0 /\ running' = running)
             => token_cache' = token_cache /\ frame' = frame
       /\ InsertStep
             => \/ /\ frame.raw \in DOMAIN token_cache'
                   /\ token_cache'[frame.raw] = frame.t0 + CACHE_TTL
                \/ /\ SizeAfterInsert > SWEEP_THRESHOLD
                   /\ frame.t0 + CACHE_TTL < now]_vars

\* the race the claim is about: one request is inside the bind for a raw
\* token that had no entry, its insert will set off the sweep, and another
\* request with the same raw token is waiting
C15_Witness ==
    /\ running # 0 /\ frame.lookup = "Absent"
    /\ Cardinality(DOMAIN token_cache) >= SWEEP_THRESHOLD
    /\ \E r \in Requests :
          /\ r # running /\ req[r].pc = "Received"
          /\ Validate(req[r].hdr).kind = "Ok"
          /\ Validate(req[r].hdr).raw = frame.raw

\* the target of the inbound request: its path and, when it has one, its
\* query string
InboundTarget(q) ==
    <<"/", q.path>> \o (IF q.query = "" THEN << >> ELSE <<"?", q.query>>)

\* C16: the request built for the backend has the method, the path, the
\* query and the body of the inbound request, and its headers are exactly
\* the inbound headers without Host and Content-Length, each with the value
\* it came with.
C16_OutboundIsInbound ==
    \A r \in Requests :
        req[r].pc = "Sending"
            => LET q == req[r].inbound
                   out == req[r].outbound
                   inh == HeaderMap(req[r].hdr, q.headers)
               IN /\ out.method = q.method
                  /\ out.url = InboundTarget(q)
                  /\ out.content = q.body
                  /\ DOMAIN out.headers = DOMAIN inh \ {"host", "content-length"}
                  /\ \A n \in DOMAIN out.headers : out.headers[n] = inh[n]

\* the string t occurs in the string s
Occurs(t, s) ==
    \E i \in 0..(Len(s) - Len(t)) : SubSeq(s, i + 1, i + Len(t)) = t

\* C17: the credential goes to the cache key and to the bind only. The
\* request sent to the backend carries the raw credential in none of its
\* headers, and what the verifier prints names neither the identifier nor
\* the secret.
C17_CredentialStaysInside ==
    /\ \A r \in Requests :
          (req[r].pc = "Sending" /\ HasBearer(req[r].hdr))
              => \A n \in DOMAIN req[r].outbound.headers :
                    ~Occurs(BearerToken(req[r].hdr), req[r].outbound.headers[n])
    /\ (frame.r # 0 /\ frame.kind = "Ok")
          => frame.printed.arg \notin {UserOf(frame.raw), SecretOf(frame.raw), frame.raw}

\* C18: streaming pass-through. While the response is streamed, the caller's
\* response carries the status code of the backend's response; the chunks
\* delivered, followed by the chunk the forwarder holds, are the chunks the
\* backend has produced, in their order and unchanged; and the forwarder
\* never holds more than one chunk that it has not delivered: it reads the
\* next chunk only after it has passed the last one on.
C18_StreamingPassThrough ==
    \A r \in Requests :
        req[r].pc = "Streaming"
            => /\ req[r].status = req[r].rstatus
               /\ req[r].rstatus \in BackendStatuses
               /\ Len(req[r].buffer) <= 1
               /\ req[r].delivered \o req[r].buffer = Chunks(req[r].produced)

\* the second chunk has been read after the first was delivered, in a
\* response that the backend began with 404
C18_Witness ==
    \E r \in Requests :
        /\ req[r].pc = "Streaming" /\ req[r].status = 404
        /\ req[r].delivered = <<1>> /\ req[r].buffer = <<2>>

\* the stages of one request in the order of the pipeline; the syntax check
\* is the first three
StageOrder == <<"header", "length", "pattern", "lookup", "bind", "insert", "sweep">>

\* the forwarder has been started for request r
Forwarded(r) == req[r].pc \in {"Sending", "Streaming", "Done"}

\* C19: within one request the stages run in the order syntax check, cache
\* lookup, directory verification, cache insert, forward: what a request has
\* run is always an initial part of that order, and the forwarder starts
\* only after the stages before it have ended well. The verifier is invoked
\* at most once for a request: not at all when the syntax check fails or
\* the lookup is Fresh, once when the lookup is Absent or Expired, and a
\* False answer ends the request without a second attempt.
C19_StagesInOrderOneBind ==
    /\ frame.trace = SubSeq(StageOrder, 1, Len(frame.trace))
    /\ \A r \in Requests :
          Forwarded(r)
              => /\ frame.r = r /\ frame.ret = "True"
                 /\ Len(frame.trace) >= 4
                 /\ frame.calls = 1 => Len(frame.trace) = Len(StageOrder)
    /\ frame.r # 0
          => /\ frame.calls = Cardinality({i \in 1..Len(frame.trace) : frame.trace[i] = "bind"})
             /\ frame.calls <= 1
             /\ frame.kind # "Ok" => frame.calls = 0 /\ Len(frame.trace) <= 3
             /\ frame.lookup = "Fresh" => frame.calls = 0
             /\ frame.lookup \in {"Absent", "Expired"} => frame.calls = 1
             /\ frame.vresult = "False"
                   => /\ frame.calls = 1
                      /\ req[frame.r].pc = "Denied"
                      /\ frame.ret = "raised"

\* a request that went through every stage: its entry had expired, the bind
\* was accepted, and the backend is being read
C19_Witness ==
    /\ frame.r # 0 /\ req[frame.r].pc = "Streaming"
    /\ frame.lookup = "Expired" /\ frame.calls = 1
    /\ frame.trace = StageOrder

\* this step denies a request at the syntax validation
SyntaxDenialStep ==
    \E r \in Requests :
        /\ req[r].pc = "Received" /\ req'[r].pc = "Denied"
        /\ frame'.kind \in {"Missing", "TooLong", "Malformed"}

\* C20: a step that changes the cache at all belongs to a request that
\* passed the syntax validation and found its entry Absent or Expired; no
\* step removes an entry that is still Fresh, and no step changes the
\* expiry of a key other than the one it inserts. A successful insert
\* adds or overwrites its own key only; the sweep that follows it removes
\* only entries whose expiry is before the time of the sweep, and when the
\* store holds at most 1000 entries after the insert, every other entry,
\* lapsed ones included, stays as it was. A request denied at the syntax
\* validation leaves the whole cache as it was.
C20_CacheFrame ==
    [][/\ SyntaxDenialStep => token_cache' = token_cache
       /\ token_cache' # token_cache
             => /\ frame'.kind = "Ok" /\ frame'.lookup \in {"Absent", "Expired"}
                /\ \A k \in Removed : token_cache[k] <= now
                /\ \A k \in DOMAIN token_cache \cap DOMAIN token_cache' :
                      k # frame'.raw => token_cache'[k] = token_cache[k]
                /\ \A k \in DOMAIN token_cache' \ DOMAIN token_cache :
                      InsertStep /\ k = frame.raw
                /\ InsertStep
                      => /\ \A k \in Removed : token_cache[k] < now
                         /\ SizeAfterInsert <= SWEEP_THRESHOLD
                               => /\ Removed = {}
                                  /\ \A k \in DOMAIN token_cache \ {frame.raw} :
                                        token_cache'[k] = token_cache[k]]_vars

\* a sweep has run after the latest insert and has left an entry that
\* expires at this very second
C20_Witness ==
    /\ frame.ret = "True" /\ frame.calls = 1
    /\ frame.raw \in DOMAIN token_cache
    /\ Cardinality(DOMAIN token_cache) < SWEEP_THRESHOLD - 1
    /\ \E k \in DOMAIN token_cache : token_cache[k] = now

====
